---- MODULE Spec2Model ----
(***************************************************************************)
(* HoltsmarkDistributionFP64ErrorVis/_main.py: the report renderer.  For   *)
(* each of the seven targets the script reads <results>/<target>.csv,      *)
(* suppresses the error rate where the reference value is below 1e-305,    *)
(* draws a two-panel figure and saves it to <figures>/<target>.svg.        *)
(*                                                                         *)
(* The model has one action per statement of the loop body.  The state is  *)
(* the script's variables, pyplot's figure registry, and the two           *)
(* directories of the file system the script touches.                      *)
(***************************************************************************)
EXTENDS Integers, Sequences, FiniteSets, TLC

\* ------------------------------------------------------------------ bounds

\* How many times the script is run on the same file system.
MaxRuns == 2

\* Longest column of the exhaustively enumerated datasets (SpecSanitize).
MaxRows == 2

\* ------------------------------------------------------- float64 values
\* A float64 is a record: k is "fin", "inf" or "nan"; s is the sign (1, -1);
\* a finite value is s * (m / 10) * 10^e with m in 10..99, or zero (m = 0).

Fin(s, m, e) == [k |-> "fin", s |-> s, m |-> m, e |-> e]
Zero == Fin(1, 0, 0)
NaN == [k |-> "nan", s |-> 1, m |-> 0, e |-> 0]
PosInf == [k |-> "inf", s |-> 1, m |-> 0, e |-> 0]
NegInf == [k |-> "inf", s |-> -1, m |-> 0, e |-> 0]

\* The sign of a value that is not NaN: -1, 0 or 1.
Sgn(v) == IF v.k = "fin" /\ v.m = 0 THEN 0 ELSE v.s

\* a < b for two values of sign 1, by magnitude.
MagLt(a, b) ==
    IF a.k = "inf" THEN FALSE
    ELSE IF b.k = "inf" THEN TRUE
    ELSE a.e < b.e \/ (a.e = b.e /\ a.m < b.m)

\* IEEE 754 a < b: false whenever an operand is NaN.
Lt(a, b) ==
    IF a.k = "nan" \/ b.k = "nan" THEN FALSE
    ELSE IF Sgn(a) # Sgn(b) THEN Sgn(a) < Sgn(b)
    ELSE IF Sgn(a) = 0 THEN FALSE
    ELSE IF Sgn(a) = 1 THEN MagLt(a, b)
    ELSE MagLt(b, a)

\* np.abs on one element: the sign is cleared, NaN stays NaN.
Abs(v) == IF v.k = "nan" THEN v ELSE [v EXCEPT !.s = 1]

\* The literal 1e-305.
Threshold == Fin(1, 10, -305)

\* ------------------------------------------------------- the two tables

dirpath_summary == "../results/"
suffix_summary == ".csv"
dirpath_figure == "../figures/"
suffix_figure == ".svg"

targets ==
    << "pdf_approx",
       "pdflimit_approx",
       "cdflower_approx",
       "cdfupperlimit_approx",
       "quantile_approx",
       "quantilelowerlimit_approx",
       "quantileupperlimit_approx" >>

\* The options table with its second entry left out.
optionsShort ==
    << <<>>,
       <<>>,
       <<"logx", "logy">>,
       <<>>,
       <<"logx">>,
       <<"logx", "logy">> >>

options ==
    << <<>>,
       <<"logx", "logy">>,
       <<>>,
       <<"logx", "logy">>,
       <<>>,
       <<"logx">>,
       <<"logx", "logy">> >>

Min(a, b) == IF a < b THEN a ELSE b

\* A zip that stops one pair early.
ZipOffByOne(a, b) == [k \in 1..(Min(Len(a), Len(b)) - 1) |-> <<a[k], b[k]>>]

\* zip(a, b): pairs by position, as long as the shorter sequence.
Zip(a, b) == [k \in 1..Min(Len(a), Len(b)) |-> <<a[k], b[k]>>]

\* 'name' in option, on a list.
In(name, option) == \E k \in 1..Len(option) : option[k] = name

SummaryPath(t) == dirpath_summary \o t \o suffix_summary
FigurePath(t) == dirpath_figure \o t \o suffix_figure

SummaryPaths == {SummaryPath(targets[k]) : k \in 1..Len(targets)}
FigurePaths == {FigurePath(targets[k]) : k \in 1..Len(targets)}

\* ------------------------------------------------------- the sanitizer

\* err * (np.abs(y) >= 1e-305), element k: a product with 0.0, which is
\* NaN when the error is NaN or infinite.
MaskedByProduct(y, err) ==
    [k \in 1..Len(err) |->
        IF Lt(Abs(y[k]), Threshold)
        THEN (IF err[k].k = "fin" THEN Zero ELSE NaN)
        ELSE err[k]]

\* np.where(y < 1e-305, 0, err): the comparison without np.abs.
WhereWithoutAbs(y, err) ==
    [k \in 1..Len(err) |-> IF Lt(y[k], Threshold) THEN Zero ELSE err[k]]

\* np.where(np.abs(y) < 1e-305, 0, err)
NpWhereAbs(y, err) ==
    [k \in 1..Len(err) |-> IF Lt(Abs(y[k]), Threshold) THEN Zero ELSE err[k]]

\* ------------------------------------------------------- the file system

\* What a path of the results directory holds.
Unread == [kind |-> "unread"]
Missing == [kind |-> "missing"]
Garbled == [kind |-> "garbled"]
Table(cols) == [kind |-> "table", cols |-> cols]

Columns(xs, ys, es) ==
    ("x" :> xs) @@ ("y_actual" :> ys) @@ ("error(rate)" :> es)

\* Three rows: y_actual = 2e-310, 0.5, -1e-310; error = 5.0, 0.01, 3.2.
TableA ==
    Table(Columns(
        << Fin(1, 10, 0), Fin(1, 20, 0), Fin(1, 30, 0) >>,
        << Fin(1, 20, -310), Fin(1, 50, -1), Fin(-1, 10, -310) >>,
        << Fin(1, 50, 0), Fin(1, 10, -2), Fin(1, 32, 0) >>))

\* Four rows: y_actual = 0, 1e-305, NaN, -0.5; error = NaN, +inf, 1.0, 7e-17.
TableB ==
    Table(Columns(
        << Fin(1, 10, -3), Fin(1, 10, 0), Fin(1, 10, 3), Fin(1, 10, 6) >>,
        << Zero, Fin(1, 10, -305), NaN, Fin(-1, 50, -1) >>,
        << NaN, PosInf, Fin(1, 10, 0), Fin(1, 70, -17) >>))

\* A table without the error(rate) column.
TableNoErr ==
    Table(("x" :> << Fin(1, 10, 0) >>) @@ ("y_actual" :> << Fin(1, 50, -1) >>))

FileContents == {Missing, Garbled, TableNoErr, TableA, TableB}

NoFile == [kind |-> "absent"]

\* open(path, 'a') and write: the new content follows the old.
WriteAppending(old, new) ==
    [new EXCEPT !.axes = (IF old.kind = "svg" THEN old.axes ELSE <<>>) \o @]

\* open(path, 'w') and write: the file's earlier content is discarded.
Write(old, new) == new

\* ------------------------------------------------------- pyplot

\* A figure as pyplot.figure creates it; the implicit figure of gcf() has
\* the default size.
NewFigure(figsize) == [figsize |-> figsize, axes |-> <<>>]
DefaultFigsize == <<"rcParams">>

\* An Axes as add_subplot creates it.
NewAxes(pos) ==
    [pos |-> pos, lines |-> <<>>, grid |-> FALSE, ylabel |-> "",
     xscale |-> "linear", yscale |-> "linear"]

\* Figure.clear(): every Axes is removed.
Clear(f) == [f EXCEPT !.axes = <<>>]

\* What savefig(..., bbox_inches='tight') writes for a figure.
Image(f) == [kind |-> "svg", bbox |-> "tight", figsize |-> f.figsize, axes |-> f.axes]

\* ------------------------------------------------------- state

VARIABLES
    pc,        \* the statement the script executes next, "done" or "aborted"
    i,         \* how many pairs the zip iterator has yielded
    target,    \* loop variable
    option,    \* loop variable
    data,      \* the DataFrame
    x, y, err, \* the three columns; err is the sanitized one after line 35
    figs,      \* pyplot's open figures, by figure number
    cur,       \* the number of pyplot's current figure, 0 when there is none
    fig,       \* the script's fig, a figure number
    ax1, ax2,  \* the script's two Axes, positions in figs[fig].axes
    error,     \* the exception that ended the run, or "none"
    csv,       \* the results directory: path -> content, as far as read
    canwrite,  \* the figures directory: path -> "yes", "no", "unknown"
    files,     \* the figures directory: path -> content
    written,   \* the paths this run has written
    trace,     \* the statements this run has completed: <<i, line>>
    run,       \* which run of the script this is
    prev       \* files and written as the previous run left them

vars ==
    << pc, i, target, option, data, x, y, err, figs, cur, fig, ax1, ax2,
       error, csv, canwrite, files, written, trace, run, prev >>

script == << pc, i, target, option, data, x, y, err, fig, ax1, ax2, error >>
pyplot == << figs, cur >>
disk == << csv, canwrite, files, written >>
history == << run, prev >>

\* A fresh interpreter at the head of the loop.
Start ==
    /\ pc = "for"
    /\ i = 0
    /\ target = ""
    /\ option = <<>>
    /\ data = [kind |-> "none"]
    /\ x = <<>> /\ y = <<>> /\ err = <<>>
    /\ figs = <<>>
    /\ cur = 0
    /\ fig = 0 /\ ax1 = 0 /\ ax2 = 0
    /\ error = "none"
    /\ written = {}
    /\ trace = <<>>

Init ==
    /\ Start
    /\ csv = [p \in SummaryPaths |-> Unread]
    /\ canwrite = [p \in FigurePaths |-> "unknown"]
    /\ files = [p \in FigurePaths |-> NoFile]
    /\ run = 1
    /\ prev = [files |-> files, written |-> {}]

Done(line) == trace' = Append(trace, <<i, line>>)

Raise(e) == pc' = "aborted" /\ error' = e

\* ------------------------------------------------------- the loop

\* line 31: for target, option in zip(targets, options)
For ==
    /\ pc = "for"
    /\ IF i < Len(Zip(targets, options))
       THEN /\ i' = i + 1
            /\ target' = Zip(targets, options)[i + 1][1]
            /\ option' = Zip(targets, options)[i + 1][2]
            /\ pc' = "read_csv"
       ELSE /\ pc' = "done"
            /\ UNCHANGED << i, target, option >>
    /\ UNCHANGED << data, x, y, err, fig, ax1, ax2, error >>
    /\ UNCHANGED << pyplot, disk, history, trace >>

\* pd.read_csv swallowing a failed read: the script goes on to the next target.
ReadCsvSkipping ==
    /\ pc = "read_csv"
    /\ \E c \in FileContents :
        /\ csv[SummaryPath(target)] \in {Unread, c}
        /\ csv' = [csv EXCEPT ![SummaryPath(target)] = c]
        /\ IF c.kind = "table"
           THEN /\ data' = c
                /\ pc' = "columns"
                /\ Done(32)
           ELSE /\ pc' = "for"
                /\ UNCHANGED << data, trace >>
    /\ UNCHANGED << i, target, option, x, y, err, fig, ax1, ax2, error >>
    /\ UNCHANGED << pyplot, canwrite, files, written, history >>

\* line 32: data = pd.read_csv(dirpath_summary + target + suffix_summary)
\* The content of a path is fixed the first time the path is read.
ReadCsv ==
    /\ pc = "read_csv"
    /\ \E c \in FileContents :
        /\ csv[SummaryPath(target)] \in {Unread, c}
        /\ csv' = [csv EXCEPT ![SummaryPath(target)] = c]
        /\ IF c.kind = "table"
           THEN /\ data' = c
                /\ pc' = "columns"
                /\ error' = error
                /\ Done(32)
           ELSE /\ Raise(IF c.kind = "missing" THEN "FileNotFoundError" ELSE "ParserError")
                /\ UNCHANGED << data, trace >>
    /\ UNCHANGED << i, target, option, x, y, err, fig, ax1, ax2 >>
    /\ UNCHANGED << pyplot, canwrite, files, written, history >>

\* line 34: x, y, err = data['x'], data['y_actual'], data['error(rate)']
GetColumns ==
    /\ pc = "columns"
    /\ IF {"x", "y_actual", "error(rate)"} \subseteq DOMAIN data.cols
       THEN /\ x' = data.cols["x"]
            /\ y' = data.cols["y_actual"]
            /\ err' = data.cols["error(rate)"]
            /\ pc' = "where"
            /\ error' = error
            /\ Done(34)
       ELSE /\ Raise("KeyError")
            /\ UNCHANGED << x, y, err, trace >>
    /\ UNCHANGED << i, target, option, data, fig, ax1, ax2 >>
    /\ UNCHANGED << pyplot, disk, history >>

\* line 35: err = np.where(np.abs(y) < 1e-305, 0, err)
Sanitize ==
    /\ pc = "where"
    /\ err' = NpWhereAbs(y, err)
    /\ pc' = "clf"
    /\ Done(35)
    /\ UNCHANGED << i, target, option, data, x, y, fig, ax1, ax2, error >>
    /\ UNCHANGED << pyplot, disk, history >>

\* ------------------------------------------------------- the figure

\* line 37: plt.clf(), which is plt.gcf().clear(); gcf() creates a figure
\* when none is open.
Clf ==
    /\ pc = "clf"
    /\ IF cur = 0
       THEN /\ figs' = Append(figs, Clear(NewFigure(DefaultFigsize)))
            /\ cur' = Len(figs) + 1
       ELSE /\ figs' = [figs EXCEPT ![cur] = Clear(@)]
            /\ cur' = cur
    /\ pc' = "figure"
    /\ Done(37)
    /\ UNCHANGED << i, target, option, data, x, y, err, fig, ax1, ax2, error >>
    /\ UNCHANGED << disk, history >>

\* fig = plt.gcf(): the current figure is drawn on again.
FigureReused ==
    /\ pc = "figure"
    /\ fig' = cur
    /\ pc' = "add_subplot1"
    /\ Done(38)
    /\ UNCHANGED << i, target, option, data, x, y, err, ax1, ax2, error >>
    /\ UNCHANGED << pyplot, disk, history >>

\* line 38: fig = plt.figure(figsize=(12, 6)): a new figure, made current.
Figure ==
    /\ pc = "figure"
    /\ figs' = Append(figs, NewFigure(<<12, 6>>))
    /\ cur' = Len(figs) + 1
    /\ fig' = Len(figs) + 1
    /\ pc' = "add_subplot1"
    /\ Done(38)
    /\ UNCHANGED << i, target, option, data, x, y, err, ax1, ax2, error >>
    /\ UNCHANGED << disk, history >>

\* line 40: ax1 = fig.add_subplot(2, 1, 1)
AddSubplot1 ==
    /\ pc = "add_subplot1"
    /\ figs' = [figs EXCEPT ![fig].axes = Append(@, NewAxes(<<2, 1, 1>>))]
    /\ ax1' = Len(figs[fig].axes) + 1
    /\ pc' = "add_subplot2"
    /\ Done(40)
    /\ UNCHANGED << i, target, option, data, x, y, err, fig, ax2, error, cur >>
    /\ UNCHANGED << disk, history >>

\* line 41: ax2 = fig.add_subplot(2, 1, 2)
AddSubplot2 ==
    /\ pc = "add_subplot2"
    /\ figs' = [figs EXCEPT ![fig].axes = Append(@, NewAxes(<<2, 1, 2>>))]
    /\ ax2' = Len(figs[fig].axes) + 1
    /\ pc' = "ax1_plot"
    /\ Done(41)
    /\ UNCHANGED << i, target, option, data, x, y, err, fig, ax1, error, cur >>
    /\ UNCHANGED << disk, history >>

\* A statement that changes one Axes of fig and nothing else.
OnAxes(at, ax, changed, line, next) ==
    /\ pc = at
    /\ figs' = [figs EXCEPT ![fig].axes[ax] = changed]
    /\ pc' = next
    /\ Done(line)
    /\ UNCHANGED << i, target, option, data, x, y, err, fig, ax1, ax2, error, cur >>
    /\ UNCHANGED << disk, history >>

\* Axes.plot(xs, ys): one more line.
Plot(a, xs, ys) == [a EXCEPT !.lines = Append(@, [xdata |-> xs, ydata |-> ys])]

\* Axes.grid() without arguments toggles the grid lines.
Grid(a) == [a EXCEPT !.grid = ~@]

\* line 43: ax1.plot(x, y)
Ax1Plot == OnAxes("ax1_plot", ax1, Plot(figs[fig].axes[ax1], x, y), 43, "ax1_grid")

\* line 44: ax1.grid()
Ax1Grid == OnAxes("ax1_grid", ax1, Grid(figs[fig].axes[ax1]), 44, "ax1_ylabel")

\* line 45: ax1.set_ylabel('actual')
Ax1SetYlabel ==
    OnAxes("ax1_ylabel", ax1, [figs[fig].axes[ax1] EXCEPT !.ylabel = "actual"],
           45, "ax2_plot")

\* ax1.plot(x, err): the error curve drawn on the top panel.
Ax2PlotOnAx1 == OnAxes("ax2_plot", ax1, Plot(figs[fig].axes[ax1], x, err), 47, "ax2_grid")

\* line 47: ax2.plot(x, err)
Ax2Plot == OnAxes("ax2_plot", ax2, Plot(figs[fig].axes[ax2], x, err), 47, "ax2_grid")

\* line 48: ax2.grid()
Ax2Grid == OnAxes("ax2_grid", ax2, Grid(figs[fig].axes[ax2]), 48, "ax2_ylabel")

\* line 49: ax2.set_ylabel('error(rate)')
Ax2SetYlabel ==
    OnAxes("ax2_ylabel", ax2, [figs[fig].axes[ax2] EXCEPT !.ylabel = "error(rate)"],
           49, "if_logx")

\* A statement that changes no variable but the position.
Branch(at, next) ==
    /\ pc = at
    /\ pc' = next
    /\ UNCHANGED << i, target, option, data, x, y, err, fig, ax1, ax2, error >>
    /\ UNCHANGED << pyplot, disk, history, trace >>

\* line 51: if 'logx' in option
IfLogx == Branch("if_logx", IF In("logx", option) THEN "ax1_xscale" ELSE "if_logy")

\* line 52: ax1.set_xscale('log')
Ax1SetXscale ==
    OnAxes("ax1_xscale", ax1, [figs[fig].axes[ax1] EXCEPT !.xscale = "log"],
           52, "ax2_xscale")

\* ax1.set_xscale('log') a second time in place of ax2.set_xscale('log').
Ax2SetXscaleOnAx1 ==
    OnAxes("ax2_xscale", ax1, [figs[fig].axes[ax1] EXCEPT !.xscale = "log"],
           53, "if_logy")

\* line 53: ax2.set_xscale('log')
Ax2SetXscale ==
    OnAxes("ax2_xscale", ax2, [figs[fig].axes[ax2] EXCEPT !.xscale = "log"],
           53, "if_logy")

\* line 55: if 'logy' in option
IfLogy == Branch("if_logy", IF In("logy", option) THEN "ax1_yscale" ELSE "ax2_yscale")

\* line 56: ax1.set_yscale('log')
Ax1SetYscale ==
    OnAxes("ax1_yscale", ax1, [figs[fig].axes[ax1] EXCEPT !.yscale = "log"],
           56, "ax2_yscale")

\* ax2.set_yscale('log') indented under "if 'logy' in option".
Ax2SetYscaleIfLogy ==
    OnAxes("ax2_yscale", ax2,
           [figs[fig].axes[ax2] EXCEPT
               !.yscale = IF In("logy", option) THEN "log" ELSE @],
           58, "savefig")

\* line 58: ax2.set_yscale('log')
Ax2SetYscale ==
    OnAxes("ax2_yscale", ax2, [figs[fig].axes[ax2] EXCEPT !.yscale = "log"],
           58, "savefig")

\* line 60: plt.savefig(dirpath_figure + target + suffix_figure,
\* bbox_inches='tight'): the current figure goes to the path.  Whether the
\* path can be written is fixed the first time it is written to.
Savefig ==
    /\ pc = "savefig"
    /\ \E w \in {"yes", "no"} :
        /\ canwrite[FigurePath(target)] \in {"unknown", w}
        /\ canwrite' = [canwrite EXCEPT ![FigurePath(target)] = w]
        /\ IF w = "yes"
           THEN /\ files' = [files EXCEPT
                                ![FigurePath(target)] = Write(@, Image(figs[cur]))]
                /\ written' = written \cup {FigurePath(target)}
                /\ pc' = "for"
                /\ error' = error
                /\ Done(60)
           ELSE /\ Raise("OSError")
                /\ UNCHANGED << files, written, trace >>
    /\ UNCHANGED << i, target, option, data, x, y, err, fig, ax1, ax2 >>
    /\ UNCHANGED << pyplot, csv, history >>

\* ------------------------------------------------------- running again

\* The script is started again, in a new interpreter, on the file system
\* the run before left.
Rerun ==
    /\ pc \in {"done", "aborted"}
    /\ run < MaxRuns
    /\ run' = run + 1
    /\ prev' = [files |-> files, written |-> written]
    /\ pc' = "for"
    /\ i' = 0
    /\ target' = ""
    /\ option' = <<>>
    /\ data' = [kind |-> "none"]
    /\ x' = <<>> /\ y' = <<>> /\ err' = <<>>
    /\ figs' = <<>>
    /\ cur' = 0
    /\ fig' = 0 /\ ax1' = 0 /\ ax2' = 0
    /\ error' = "none"
    /\ written' = {}
    /\ trace' = <<>>
    /\ UNCHANGED << csv, canwrite, files >>

Next ==
    \/ For
    \/ ReadCsv
    \/ GetColumns
    \/ Sanitize
    \/ Clf
    \/ Figure
    \/ AddSubplot1
    \/ AddSubplot2
    \/ Ax1Plot
    \/ Ax1Grid
    \/ Ax1SetYlabel
    \/ Ax2Plot
    \/ Ax2Grid
    \/ Ax2SetYlabel
    \/ IfLogx
    \/ Ax1SetXscale
    \/ Ax2SetXscale
    \/ IfLogy
    \/ Ax1SetYscale
    \/ Ax2SetYscale
    \/ Savefig
    \/ Rerun

Spec == Init /\ [][Next]_vars

\* ------------------------------------------------------- line 35 alone

\* The values a cell of y_actual and of error(rate) is drawn from:
\* 0, 2e-310, -1e-310, 9.9e-306, 1e-305, -0.5, NaN, +inf, -inf and
\* 5.0, 0.01, NaN, +inf, -inf.
YValues ==
    { Zero, Fin(1, 20, -310), Fin(-1, 10, -310), Fin(1, 99, -306),
      Fin(1, 10, -305), Fin(-1, 50, -1), NaN, PosInf, NegInf }
ErrValues == { Fin(1, 50, 0), Fin(1, 10, -2), NaN, PosInf, NegInf }

\* A table of n rows with x = 1, 10, 100, ...
TableOf(n, ys, es) == Table(Columns([k \in 1..n |-> Fin(1, 10, k - 1)], ys, es))

\* The first iteration with the columns of table d extracted.
Extracted(d) ==
    /\ data = d
    /\ x = d.cols["x"]
    /\ y = d.cols["y_actual"]
    /\ err = d.cols["error(rate)"]
    /\ csv = [p \in SummaryPaths |-> IF p = SummaryPath(targets[1]) THEN d ELSE Unread]

\* The first iteration before line 35, on every table of at most MaxRows
\* rows over these values and on the two tables above.
InitSanitize ==
    /\ \/ \E n \in 0..MaxRows :
            \E ys \in [1..n -> YValues], es \in [1..n -> ErrValues] :
                Extracted(TableOf(n, ys, es))
       \/ \E d \in {TableA, TableB} : Extracted(d)
    /\ pc = "where"
    /\ i = 1
    /\ target = Zip(targets, options)[1][1]
    /\ option = Zip(targets, options)[1][2]
    /\ figs = <<>>
    /\ cur = 0
    /\ fig = 0 /\ ax1 = 0 /\ ax2 = 0
    /\ error = "none"
    /\ canwrite = [p \in FigurePaths |-> "unknown"]
    /\ files = [p \in FigurePaths |-> NoFile]
    /\ written = {}
    /\ trace = << <<1, 32>>, <<1, 34>> >>
    /\ run = 1
    /\ prev = [files |-> files, written |-> {}]

NextSanitize == Sanitize

SpecSanitize == InitSanitize /\ [][NextSanitize]_vars

\* ------------------------------------------------------- what is expected

\* |v| < 1e-305, read off the digits: a finite value that is zero or has a
\* decimal exponent below -305.
AbsBelow1e305(v) == v.k = "fin" /\ (v.m = 0 \/ v.e < -305)

\* |v| >= 1e-305: an infinity, or a finite nonzero value of exponent >= -305.
AbsAtLeast1e305(v) == v.k = "inf" \/ (v.k = "fin" /\ v.m # 0 /\ v.e >= -305)

RawY == data.cols["y_actual"]
RawErr == data.cols["error(rate)"]

Sanitized == pc = "clf"

Positions == 1..Len(targets)

\* The positions of the targets rendered with logx and with logy.
HasLogx(k) == k \in {2, 4, 6, 7}
HasLogy(k) == k \in {2, 4, 7}
ScaleIf(b) == IF b THEN "log" ELSE "linear"

\* The image saved for the target at position k, None when there is none.
Saved(k) == files[FigurePath(targets[k])]
IsSaved(k) == Saved(k).kind = "svg"

\* The panels of an image at a subplot position.
Panels(img, pos) == {n \in 1..Len(img.axes) : img.axes[n].pos = pos}
Top(img) == img.axes[CHOOSE n \in Panels(img, <<2, 1, 1>>) : TRUE]
Bottom(img) == img.axes[CHOOSE n \in Panels(img, <<2, 1, 2>>) : TRUE]
TwoPanels(img) ==
    /\ Len(img.axes) = 2
    /\ Cardinality(Panels(img, <<2, 1, 1>>)) = 1
    /\ Cardinality(Panels(img, <<2, 1, 2>>)) = 1

\* The table the results directory holds for the target at position k.
Source(k) == csv[SummaryPath(targets[k])]

\* Row n of the sanitized error of a table.
ExpectedErr(t, n) ==
    IF AbsBelow1e305(t.cols["y_actual"][n]) THEN Zero ELSE t.cols["error(rate)"][n]

\* The figure of section 4.1 for the target at position k.
ExpectedImage(k) ==
    [kind |-> "svg", bbox |-> "tight", figsize |-> <<12, 6>>,
     axes |->
        << [pos |-> <<2, 1, 1>>,
            lines |-> << [xdata |-> Source(k).cols["x"],
                          ydata |-> Source(k).cols["y_actual"]] >>,
            grid |-> TRUE, ylabel |-> "actual",
            xscale |-> ScaleIf(HasLogx(k)), yscale |-> ScaleIf(HasLogy(k))],
           [pos |-> <<2, 1, 2>>,
            lines |-> << [xdata |-> Source(k).cols["x"],
                          ydata |-> [n \in 1..Len(Source(k).cols["x"]) |->
                                        ExpectedErr(Source(k), n)]] >>,
            grid |-> TRUE, ylabel |-> "error(rate)",
            xscale |-> ScaleIf(HasLogx(k)), yscale |-> "log"] >>]

\* ------------------------------------------------------- sanitization

\* C1: once line 35 has run, every row whose |y_actual| is below 1e-305 has
\* sanitized error 0, whatever its raw error is: finite, NaN, +inf or -inf.
C1_SuppressedBelowThreshold ==
    Sanitized =>
        \A n \in 1..Len(RawY) : AbsBelow1e305(RawY[n]) => err[n] = Zero

\* C1 witness: a NaN and an infinite raw error, both on rows below the
\* threshold, both suppressed.
C1_Witness ==
    /\ Sanitized
    /\ \E n, m \in 1..Len(RawY) :
        /\ AbsBelow1e305(RawY[n]) /\ RawErr[n] = NaN /\ err[n] = Zero
        /\ AbsBelow1e305(RawY[m]) /\ RawErr[m] = NegInf /\ err[m] = Zero

\* C2: once line 35 has run, every row whose |y_actual| is at least 1e-305
\* keeps its raw error; the sanitized column has the length of the input,
\* x and y_actual are untouched, and the three rows 2e-310, 0.5, -1e-310 with
\* errors 5.0, 0.01, 3.2 give 0, 0.01, 0.
C2_PassThroughAtThreshold ==
    Sanitized =>
        /\ Len(err) = Len(RawErr)
        /\ x = data.cols["x"] /\ y = RawY /\ Len(x) = Len(err)
        /\ \A n \in 1..Len(RawY) : AbsAtLeast1e305(RawY[n]) => err[n] = RawErr[n]
        /\ data = TableA => err = << Zero, Fin(1, 10, -2), Zero >>

\* C2 witness: a negative y_actual of large magnitude and a y_actual of
\* exactly 1e-305, each with its raw error kept.
C2_Witness ==
    /\ Sanitized
    /\ \E n, m \in 1..Len(RawY) :
        /\ RawY[n] = Fin(-1, 50, -1) /\ RawErr[n] = Fin(1, 50, 0) /\ err[n] = RawErr[n]
        /\ RawY[m] = Fin(1, 10, -305) /\ RawErr[m] = PosInf /\ err[m] = PosInf

\* ------------------------------------------------------- axis scales

\* C3: every saved image has a bottom panel whose y-axis is logarithmic,
\* whatever the options of its target.
C3_BottomYAlwaysLog ==
    \A k \in Positions :
        IsSaved(k) =>
            /\ Panels(Saved(k), <<2, 1, 2>>) # {}
            /\ \A n \in Panels(Saved(k), <<2, 1, 2>>) : Saved(k).axes[n].yscale = "log"

\* C3 witness: images saved for a target without options, one with logx
\* alone and one with logx and logy.
C3_Witness ==
    /\ IsSaved(1) /\ IsSaved(6) /\ IsSaved(7)
    /\ Bottom(Saved(1)).yscale = "log"
    /\ Bottom(Saved(6)).yscale = "log"
    /\ Bottom(Saved(7)).yscale = "log"

\* C4: in every saved image both panels' x-axes are logarithmic exactly when
\* the target has logx, the top panel's y-axis is logarithmic exactly when it
\* has logy, and the bottom panel's y-axis does not depend on either.
C4_ScalesFollowOptions ==
    \A k \in Positions :
        IsSaved(k) =>
            /\ TwoPanels(Saved(k))
            /\ Top(Saved(k)).xscale = ScaleIf(In("logx", options[k]))
            /\ Bottom(Saved(k)).xscale = ScaleIf(In("logx", options[k]))
            /\ Top(Saved(k)).yscale = ScaleIf(In("logy", options[k]))
            /\ Bottom(Saved(k)).yscale = "log"

\* C4 witness: a saved image with logx and without logy, beside one without
\* either and one with both.
C4_Witness ==
    /\ IsSaved(5) /\ IsSaved(6) /\ IsSaved(7)
    /\ Top(Saved(5)).xscale = "linear" /\ Top(Saved(5)).yscale = "linear"
    /\ Top(Saved(6)).xscale = "log" /\ Top(Saved(6)).yscale = "linear"
    /\ Bottom(Saved(6)).xscale = "log"
    /\ Top(Saved(7)).xscale = "log" /\ Top(Saved(7)).yscale = "log"

\* C5: the two tables have seven entries each, the loop variables are the
\* entries at the same position of both, the loop ends only after the
\* seventh pair, and the named targets are rendered with their options.
C5_TablesAligned ==
    /\ Len(targets) = 7 /\ Len(options) = 7
    /\ i \in 1..7 => target = targets[i] /\ option = options[i]
    /\ pc = "done" => i = 7
    /\ target = "quantilelowerlimit_approx" => option = << "logx" >>
    /\ target = "cdfupperlimit_approx" => option = << "logx", "logy" >>
    /\ target \in {"pdf_approx", "cdflower_approx", "quantile_approx"} => option = <<>>
    /\ IsSaved(6) =>
        /\ targets[6] = "quantilelowerlimit_approx"
        /\ Top(Saved(6)).xscale = "log" /\ Bottom(Saved(6)).xscale = "log"
        /\ Top(Saved(6)).yscale = "linear"
    /\ IsSaved(4) =>
        /\ targets[4] = "cdfupperlimit_approx"
        /\ Top(Saved(4)).xscale = "log" /\ Top(Saved(4)).yscale = "log"
        /\ Bottom(Saved(4)).xscale = "log" /\ Bottom(Saved(4)).yscale = "log"

\* C5 witness: the loop has ended with the images of both named targets saved.
C5_Witness ==
    /\ pc = "done"
    /\ FigurePath("quantilelowerlimit_approx") \in written
    /\ FigurePath("cdfupperlimit_approx") \in written

\* ------------------------------------------------------- failures

RequiredColumns == {"x", "y_actual", "error(rate)"}

\* The statements of iteration k this run has completed.
LinesOf(k) == {trace[n][2] : n \in {m \in 1..Len(trace) : trace[m][1] = k}}

\* Iteration k has gone past the statements at the positions in `upto`.
Past(k, upto) == k < i \/ (k = i /\ pc \notin upto)

LoadFailed(k) ==
    /\ Source(k).kind \in {"missing", "garbled"}
    /\ Past(k, {"read_csv"})
ExtractFailed(k) ==
    /\ Source(k).kind = "table"
    /\ ~(RequiredColumns \subseteq DOMAIN Source(k).cols)
    /\ Past(k, {"read_csv", "columns"})
SaveFailed(k) ==
    /\ canwrite[FigurePath(targets[k])] = "no"
    /\ k < i \/ (k = i /\ pc \in {"for", "done", "aborted"})

\* C6: once loading, column extraction or saving has failed for the target
\* at position k, the run is aborted at k with the error kept: no statement
\* of a later target has run and no later image is written, the images of the
\* targets before k are there as rendered, the failing statement and those
\* after it have not completed, and after a failed load or extraction the
\* image of k itself is not written.
C6_FailFast ==
    \A k \in Positions :
        LoadFailed(k) \/ ExtractFailed(k) \/ SaveFailed(k) =>
            /\ pc = "aborted" /\ i = k /\ error # "none"
            /\ \A j \in Positions :
                j > k =>
                    /\ LinesOf(j) = {}
                    /\ FigurePath(targets[j]) \notin written
                    /\ Saved(j) = prev.files[FigurePath(targets[j])]
            /\ \A j \in Positions :
                j < k =>
                    /\ FigurePath(targets[j]) \in written
                    /\ Saved(j) = ExpectedImage(j)
            /\ LoadFailed(k) => LinesOf(k) = {}
            /\ ExtractFailed(k) => LinesOf(k) = {32}
            /\ SaveFailed(k) => 60 \notin LinesOf(k)
            /\ LoadFailed(k) \/ ExtractFailed(k) =>
                /\ FigurePath(targets[k]) \notin written
                /\ Saved(k) = prev.files[FigurePath(targets[k])]

\* C6 witness: the first run aborted at the third target on a missing
\* column, with two images written and none for the third target.
C6_Witness ==
    /\ run = 1 /\ pc = "aborted" /\ i = 3 /\ error = "KeyError"
    /\ ExtractFailed(3)
    /\ Cardinality(written) = 2
    /\ Saved(3) = NoFile

\* ------------------------------------------------------- running again

LoadSanitizeSave == {32, 35, 60}
Render == {37, 38, 40, 41, 43, 44, 45, 47, 48, 49, 58}

\* C8: the completed statements are strictly ordered by position in the
\* table and, within one target, by line: load, sanitize, render, save, each
\* once, the save of a target before the load of the next.  Every target the
\* loop has left has been loaded, sanitized, rendered and saved.  A run that
\* is neither ended nor aborted can take a step; a run that has ended has the
\* seventh save as its last statement and has written the seven images
\* <figures>/<target>.svg, each from <results>/<target>.csv.
C8_SequentialOrder ==
    /\ \A a \in 1..(Len(trace) - 1) :
        \/ trace[a][1] < trace[a + 1][1]
        \/ trace[a][1] = trace[a + 1][1] /\ trace[a][2] < trace[a + 1][2]
    /\ \A k \in Positions :
        k < i \/ (k = i /\ pc \in {"for", "done"}) =>
            /\ LoadSanitizeSave \subseteq LinesOf(k)
            /\ Render \subseteq LinesOf(k)
            /\ Source(k).kind = "table"
            /\ IsSaved(k)
    /\ pc \notin {"done", "aborted"} => ENABLED Next
    /\ pc = "done" =>
        /\ trace[Len(trace)] = <<7, 60>>
        /\ written =
            { "../figures/pdf_approx.svg", "../figures/pdflimit_approx.svg",
              "../figures/cdflower_approx.svg", "../figures/cdfupperlimit_approx.svg",
              "../figures/quantile_approx.svg",
              "../figures/quantilelowerlimit_approx.svg",
              "../figures/quantileupperlimit_approx.svg" }
        /\ \A p \in
            { "../results/pdf_approx.csv", "../results/pdflimit_approx.csv",
              "../results/cdflower_approx.csv", "../results/cdfupperlimit_approx.csv",
              "../results/quantile_approx.csv",
              "../results/quantilelowerlimit_approx.csv",
              "../results/quantileupperlimit_approx.csv" } : csv[p].kind = "table"

\* C8 witness: a first run that has ended, its last statements the render
\* and the save of the seventh target.
C8_Witness ==
    /\ run = 1 /\ pc = "done" /\ error = "none"
    /\ Cardinality(written) = 7
    /\ trace[Len(trace)] = <<7, 60>>
    /\ trace[Len(trace) - 1] = <<7, 58>>

\* ------------------------------------------------------- figures

\* C9: every saved image has exactly two panels, each with exactly one
\* curve: the top one its target's x against y_actual, the bottom one its
\* target's x against the sanitized error, and the axis scales are those of
\* its target's own options.
C9_NoCrossContamination ==
    \A k \in Positions :
        IsSaved(k) =>
            /\ TwoPanels(Saved(k))
            /\ Top(Saved(k)).lines =
                << [xdata |-> Source(k).cols["x"], ydata |-> Source(k).cols["y_actual"]] >>
            /\ Len(Bottom(Saved(k)).lines) = 1
            /\ Bottom(Saved(k)).lines[1].xdata = Source(k).cols["x"]
            /\ \A n \in 1..Len(Source(k).cols["x"]) :
                Bottom(Saved(k)).lines[1].ydata[n] = ExpectedErr(Source(k), n)
            /\ Len(Bottom(Saved(k)).lines[1].ydata) = Len(Source(k).cols["x"])
            /\ Top(Saved(k)).xscale = ScaleIf(HasLogx(k))
            /\ Top(Saved(k)).yscale = ScaleIf(HasLogy(k))
            /\ Bottom(Saved(k)).xscale = ScaleIf(HasLogx(k))

\* C9 witness: the image of a target without options saved right after the
\* image of a target with logx and logy, the two from different tables.
C9_Witness ==
    /\ IsSaved(2) /\ IsSaved(3)
    /\ FigurePath(targets[3]) \in written
    /\ Source(2) = TableB /\ Source(3) = TableA
    /\ Top(Saved(3)).xscale = "linear" /\ Top(Saved(3)).yscale = "linear"
    /\ Len(Top(Saved(3)).lines) = 1

DrawingStatements ==
    { "add_subplot1", "add_subplot2", "ax1_plot", "ax1_grid", "ax1_ylabel",
      "ax2_plot", "ax2_grid", "ax2_ylabel", "if_logx", "ax1_xscale", "ax2_xscale",
      "if_logy", "ax1_yscale", "ax2_yscale", "savefig" }

\* C10: in iteration i, plt.clf() leaves figure number i empty and current:
\* the implicit figure in the first iteration, the figure saved for the
\* target before in the others.  The figure drawn on and saved is the new
\* figure number i + 1, which is the image of target i when the iteration
\* ends; the figures before it are empty.  With k >= 1 targets processed,
\* k + 1 figures are open.
C10_FreshFigurePerTarget ==
    /\ pc \in {"read_csv", "columns", "where", "clf"} /\ i > 1 =>
        /\ cur = i /\ Len(figs) = i
        /\ Image(figs[i]) = Saved(i - 1)
    /\ pc = "figure" =>
        /\ cur = i /\ Len(figs) = i
        /\ figs[i].axes = <<>>
        /\ figs[1].figsize = DefaultFigsize
    /\ pc \in DrawingStatements =>
        /\ fig = i + 1 /\ cur = i + 1 /\ Len(figs) = i + 1
        /\ figs[i + 1].figsize = <<12, 6>>
        /\ \A n \in 1..i : figs[n].axes = <<>>
    /\ pc \in {"for", "done"} /\ i >= 1 =>
        /\ Len(figs) = i + 1 /\ cur = i + 1
        /\ Image(figs[i + 1]) = Saved(i)
        /\ figs[i + 1].axes # <<>>

\* C10 witness: the loop has ended with eight figures open, the first seven
\* empty and the eighth the seventh target's.
C10_Witness ==
    /\ pc = "done"
    /\ Len(figs) = 8
    /\ \A n \in 1..7 : figs[n].axes = <<>>
    /\ Len(figs[8].axes) = 2

====
